---- MODULE Spec2Model ----
(***************************************************************************)
(* Has-many relation of the ORM: the relation query client                  *)
(* (src/src/Orm/Relations/HasMany/QueryClient.ts) and the relation query    *)
(* builder (src/src/Orm/Relations/HasMany/QueryBuilder.ts).                 *)
(*                                                                         *)
(* A write operation of the client is a chain of suspending steps; every   *)
(* `await` of the source is a step boundary of the model.  The store, the  *)
(* transaction handles, the rows' save() and the related model's           *)
(* collection-level calls are collaborators of the two source files.       *)
(***************************************************************************)
EXTENDS Integers, Sequences, FiniteSets, TLC

\* ------------------------------------------------------------------ bounds
MaxChildren == 3    \* longest sequence of child rows / payloads of one call
MaxParents == 4     \* longest sequence of parents a builder is bound to
MaxCalls == 3       \* applyConstraints() calls made on one builder

\* --------------------------------------------------------------- constants
Undefined == 0                       \* a field that holds no value
KeyValues == {1, 2, 3}               \* the values a key can hold
FieldValues == {Undefined} \cup KeyValues

Procs == {1, 2}                      \* write operations that may be issued

NoTrx == "none"                      \* an empty $trx slot
Client == "client"                   \* the plain (non transaction) client
ExtTrx == "ext"                      \* a transaction the caller opened on the parent
OptTrx == "opt"                      \* a transaction the caller passes as options.client
OwnTrx(p) == IF p = 1 THEN "own1" ELSE "own2"
Handles == {ExtTrx, OptTrx} \cup {OwnTrx(p) : p \in Procs}

foreignKey == "fk"                   \* this.relation.foreignKey
FieldNames == {"email", "name", foreignKey}

SingleRowOps == {"save", "create", "firstOrCreate", "updateOrCreate"}
RowSaveOps == {"save", "saveMany"}
RelatedOps == {"create", "createMany", "firstOrCreate", "updateOrCreate",
               "fetchOrCreateMany", "updateOrCreateMany"}
PredicateOps == {"fetchOrCreateMany", "updateOrCreateMany"}
CopyOps == {"create", "createMany", "firstOrCreate", "updateOrCreate"}
WriteOps == RowSaveOps \cup RelatedOps

\* The predicate argument of fetchOrCreateMany / updateOrCreateMany:
\* undefined, one string, or an array of field names.
PredSeqs == {<<>>} \cup {<<a>> : a \in FieldNames}
              \cup {<<a, b>> : a \in FieldNames, b \in FieldNames}
PredInputs == {[kind |-> "undefined", name |-> "", seq |-> <<>>]}
              \cup {[kind |-> "string", name |-> n, seq |-> <<>>] : n \in FieldNames \cup {""}}
              \cup {[kind |-> "array", name |-> "", seq |-> s] : s \in PredSeqs}
NoPredicate == [kind |-> "undefined", name |-> "", seq |-> <<>>]

\* The options argument: absent, an object without a client key, or an
\* object whose client key names a transaction of the caller.
OptionInputs == {"absent", "plain", "client"}

VARIABLES
    parent,      \* the parent row: local key, whether save() generates it, $trx slot
    trxState,    \* state of every transaction handle
    pending,     \* rows written inside a transaction, not yet committed
    committed,   \* rows visible in the store
    call,        \* per write operation: position and locals
    log,         \* history of the calls made to the collaborators
    builder,     \* a relation query builder and the knex builder it wraps
    subBuilder   \* the builder handed to a user callback of `builder`

vars == <<parent, trxState, pending, committed, call, log, builder, subBuilder>>

ParentRow == 0
RowId(p, i) == p * (MaxChildren + 1) + i

Ev(p, kind, row, h, fks, pred) ==
    [p |-> p, kind |-> kind, row |-> row, h |-> h, fks |-> fks, pred |-> pred]

IdleCall ==
    [pc |-> "unused", op |-> "none", rows |-> <<>>, copies |-> <<>>, input |-> <<>>,
     options |-> "absent", predicate |-> NoPredicate, arg |-> NoTrx, trx |-> NoTrx,
     managed |-> FALSE, inherited |-> NoTrx, idx |-> 0, saving |-> NoTrx,
     err |-> "none", result |-> "none"]

\* A child row / payload as the caller hands it in.
ChildRows(n, f) == [i \in 1..n |-> [fk |-> f, trx |-> NoTrx]]

NewCall(o, n, f, opt, pred) ==
    [IdleCall EXCEPT !.pc = "start", !.op = o, !.rows = ChildRows(n, f),
                     !.input = ChildRows(n, f), !.options = opt, !.predicate = pred]

CallInputs ==
    {NewCall(o, n, f, opt, pred) :
        o \in WriteOps, n \in 0..MaxChildren, f \in FieldValues,
        opt \in OptionInputs, pred \in PredInputs}

ValidCall(c) ==
    /\ c.op \in SingleRowOps => Len(c.rows) = 1
    /\ c.op \in RowSaveOps => c.options = "absent"
    /\ c.op \notin PredicateOps => c.predicate = NoPredicate

ParentInputs ==
    {[key |-> k, gen |-> g, trx |-> t] :
        k \in FieldValues, g \in BOOLEAN, t \in {NoTrx, ExtTrx}}

ValidParent(r) == r.key # Undefined => ~r.gen

\* ---------------------------------------------------------- collaborators
\* Row.save() / the related model write through the handle they are given;
\* a write through the plain client is visible at once.
WriteOn(h, ids) ==
    IF h \in Handles
    THEN /\ pending' = [pending EXCEPT ![h] = @ \cup ids]
         /\ UNCHANGED committed
    ELSE /\ committed' = committed \cup ids
         /\ UNCHANGED pending

\* ------------------------------------------------------------ the client
\* `this.parent.$trx || this.client`
TrxOrClient == IF parent.trx # NoTrx THEN parent.trx ELSE Client

\* managedTransaction(clientOrTrx, work): an existing handle runs the work
\* directly, a plain client opens a transaction first.
Start(p) ==
    /\ call[p].pc = "start"
    /\ IF TrxOrClient \in Handles
       THEN call' = [call EXCEPT ![p].pc = "work", ![p].arg = TrxOrClient,
                                 ![p].trx = TrxOrClient, ![p].managed = FALSE,
                                 ![p].inherited = TrxOrClient]
       ELSE call' = [call EXCEPT ![p].pc = "begin", ![p].arg = TrxOrClient,
                                 ![p].managed = TRUE]
    /\ UNCHANGED <<parent, trxState, pending, committed, log, builder, subBuilder>>

\* await client.transaction()
Begin(p) ==
    /\ call[p].pc = "begin"
    /\ trxState[OwnTrx(p)] = "unopened"
    /\ trxState' = [trxState EXCEPT ![OwnTrx(p)] = "open"]
    /\ call' = [call EXCEPT ![p].pc = "work", ![p].trx = OwnTrx(p)]
    /\ log' = Append(log, Ev(p, "begin", ParentRow, OwnTrx(p), <<>>, <<>>))
    /\ UNCHANGED <<parent, pending, committed, builder, subBuilder>>

\* Work without the parent's save(): the children are reached at once
WorkSkipsParent(p) ==
    /\ call[p].pc = "work"
    /\ parent' = [parent EXCEPT !.trx = call[p].trx]
    /\ call' = [call EXCEPT ![p].idx = 1,
                            ![p].pc = IF call[p].op \in RelatedOps THEN "delegate"
                                      ELSE IF Len(call[p].rows) = 0 THEN "workDone"
                                      ELSE "hydrate"]
    /\ UNCHANGED <<trxState, pending, committed, log, builder, subBuilder>>

\* Work that leaves an occupied slot alone instead of overwriting it
WorkKeepsSlot(p) ==
    /\ call[p].pc = "work"
    /\ parent' = [parent EXCEPT !.trx = IF parent.trx # NoTrx THEN parent.trx ELSE call[p].trx]
    /\ call' = [call EXCEPT ![p].pc = "parentSaving", ![p].saving = parent'.trx]
    /\ log' = Append(log, Ev(p, "persist", ParentRow, parent'.trx, <<parent.key>>, <<>>))
    /\ UNCHANGED <<trxState, pending, committed, builder, subBuilder>>

\* this.parent.$trx = trx; await this.parent.save()
Work(p) ==
    /\ call[p].pc = "work"
    /\ parent' = [parent EXCEPT !.trx = call[p].trx]
    /\ call' = [call EXCEPT ![p].pc = "parentSaving", ![p].saving = parent'.trx]
    /\ log' = Append(log, Ev(p, "persist", ParentRow, parent'.trx, <<parent.key>>, <<>>))
    /\ UNCHANGED <<trxState, pending, committed, builder, subBuilder>>

AfterRow(c, i) ==
    IF c.op \in RelatedOps THEN "delegate"
    ELSE IF i > Len(c.rows) THEN "workDone" ELSE "hydrate"

\* parent.save() returns: the row is written, a generated key is assigned
ParentSaved(p) ==
    /\ call[p].pc = "parentSaving"
    /\ WriteOn(call[p].saving, {ParentRow})
    /\ \E k \in KeyValues :
          parent' = [parent EXCEPT !.key = IF parent.key = Undefined /\ parent.gen
                                           THEN k ELSE parent.key]
    /\ call' = [call EXCEPT ![p].pc = AfterRow(call[p], 1), ![p].idx = 1]
    /\ log' = Append(log, Ev(p, "saved", ParentRow, call[p].saving, <<parent'.key>>, <<>>))
    /\ UNCHANGED <<trxState, builder, subBuilder>>

\* parent.save() throws
ParentSaveFails(p) ==
    /\ call[p].pc = "parentSaving"
    /\ call' = [call EXCEPT ![p].pc = "workFailed", ![p].err = "PersistError"]
    /\ log' = Append(log, Ev(p, "saveFailed", ParentRow, call[p].saving, <<>>, <<>>))
    /\ UNCHANGED <<parent, trxState, pending, committed, builder, subBuilder>>

\* ---------------------------------------------------- hydration of the key
\* KeyResolver: the parent's local key, an error when it holds no value
CanHydrate == parent.key # Undefined

\* relation.hydrateForPersistance(parent, row): row[foreignKey] = parent[localKey]
Hydrate(row) == [row EXCEPT !.fk = parent.key]

\* hydrateForPersistance is reached (once per row) and throws MissingKeyError
HydrateThrows(p) ==
    /\ call[p].pc \in {"hydrate", "delegate"}
    /\ Len(call[p].rows) > 0
    /\ ~CanHydrate
    /\ call' = [call EXCEPT ![p].pc = "workFailed", ![p].err = "MissingKeyError"]
    /\ log' = Append(log, Ev(p, "missingKey", RowId(p, call[p].idx), call[p].trx, <<>>, <<>>))
    /\ UNCHANGED <<parent, trxState, pending, committed, builder, subBuilder>>

\* ------------------------------------------------------- save / saveMany
\* ChildStep without `row.$trx = trx`: the row saves through its own slot
ChildStepNoTrx(p) ==
    /\ call[p].pc = "hydrate"
    /\ CanHydrate
    /\ LET i == call[p].idx
           row == Hydrate(call[p].rows[i])
           h == IF row.trx # NoTrx THEN row.trx ELSE Client
       IN /\ call' = [call EXCEPT ![p].pc = "childSaving", ![p].rows[i] = row,
                                  ![p].saving = h]
          /\ log' = Append(log, Ev(p, "persist", RowId(p, i), h, <<row.fk>>, <<>>))
    /\ UNCHANGED <<parent, trxState, pending, committed, builder, subBuilder>>

\* ChildStep without the hydration: the row keeps the foreign key it came with
ChildStepNoHydrate(p) ==
    /\ call[p].pc = "hydrate"
    /\ CanHydrate
    /\ LET i == call[p].idx
           row == [call[p].rows[i] EXCEPT !.trx = call[p].trx]
           h == IF row.trx # NoTrx THEN row.trx ELSE Client
       IN /\ call' = [call EXCEPT ![p].pc = "childSaving", ![p].rows[i] = row,
                                  ![p].saving = h]
          /\ log' = Append(log, Ev(p, "persist", RowId(p, i), h, <<row.fk>>, <<>>))
    /\ UNCHANGED <<parent, trxState, pending, committed, builder, subBuilder>>

\* ChildStep with save() started before the hydration: a missing key is
\* found only after the row's persist was invoked
ChildStepSavesFirst(p) ==
    /\ call[p].pc = "hydrate"
    /\ LET i == call[p].idx
           row == [Hydrate(call[p].rows[i]) EXCEPT !.trx = call[p].trx]
           h == IF row.trx # NoTrx THEN row.trx ELSE Client
       IN IF CanHydrate
          THEN /\ call' = [call EXCEPT ![p].pc = "childSaving", ![p].rows[i] = row,
                                       ![p].saving = h]
               /\ log' = Append(log, Ev(p, "persist", RowId(p, i), h, <<row.fk>>, <<>>))
          ELSE /\ call' = [call EXCEPT ![p].pc = "workFailed",
                                       ![p].err = "MissingKeyError"]
               /\ log' = log \o <<Ev(p, "persist", RowId(p, i), h, <<row.fk>>, <<>>),
                                   Ev(p, "missingKey", RowId(p, i), h, <<>>, <<>>)>>
    /\ UNCHANGED <<parent, trxState, pending, committed, builder, subBuilder>>

\* hydrateForPersistance(parent, row); row.$trx = trx; await row.save()
ChildStep(p) ==
    /\ call[p].pc = "hydrate"
    /\ CanHydrate
    /\ LET i == call[p].idx
           row == [Hydrate(call[p].rows[i]) EXCEPT !.trx = call[p].trx]
           h == IF row.trx # NoTrx THEN row.trx ELSE Client
       IN /\ call' = [call EXCEPT ![p].pc = "childSaving", ![p].rows[i] = row,
                                  ![p].saving = h]
          /\ log' = Append(log, Ev(p, "persist", RowId(p, i), h, <<row.fk>>, <<>>))
    /\ UNCHANGED <<parent, trxState, pending, committed, builder, subBuilder>>

\* ChildSaved that commits the handle itself once the last row is saved
ChildSavedCommits(p) ==
    /\ call[p].pc = "childSaving"
    /\ LET i == call[p].idx
           h == call[p].saving
           last == AfterRow(call[p], i + 1) = "workDone"
       IN /\ call' = [call EXCEPT ![p].pc = AfterRow(call[p], i + 1), ![p].idx = i + 1]
          /\ IF last /\ h \in Handles
             THEN /\ trxState' = [trxState EXCEPT ![h] = "committed"]
                  /\ committed' = committed \cup pending[h] \cup {RowId(p, i)}
                  /\ pending' = [pending EXCEPT ![h] = {}]
                  /\ log' = log \o <<Ev(p, "saved", RowId(p, i), h,
                                         <<call[p].rows[i].fk>>, <<>>),
                                      Ev(p, "commit", ParentRow, h, <<>>, <<>>)>>
             ELSE /\ WriteOn(h, {RowId(p, i)})
                  /\ log' = Append(log, Ev(p, "saved", RowId(p, i), h,
                                           <<call[p].rows[i].fk>>, <<>>))
                  /\ UNCHANGED trxState
    /\ UNCHANGED <<parent, builder, subBuilder>>

\* row.save() returns; the loop goes on to the next row or the work returns
ChildSaved(p) ==
    /\ call[p].pc = "childSaving"
    /\ LET i == call[p].idx
       IN /\ WriteOn(call[p].saving, {RowId(p, i)})
          /\ call' = [call EXCEPT ![p].pc = AfterRow(call[p], i + 1), ![p].idx = i + 1]
          /\ log' = Append(log, Ev(p, "saved", RowId(p, i), call[p].saving,
                                   <<call[p].rows[i].fk>>, <<>>))
    /\ UNCHANGED <<parent, trxState, builder, subBuilder>>

\* ChildSaveFails with the error lost (save() not awaited): the loop goes on
ChildSaveFailsSilently(p) ==
    /\ call[p].pc = "childSaving"
    /\ LET i == call[p].idx
       IN call' = [call EXCEPT ![p].pc = AfterRow(call[p], i + 1), ![p].idx = i + 1]
    /\ log' = Append(log, Ev(p, "saveFailed", RowId(p, call[p].idx), call[p].saving,
                             <<>>, <<>>))
    /\ UNCHANGED <<parent, trxState, pending, committed, builder, subBuilder>>

\* row.save() throws: the work is left at once
ChildSaveFails(p) ==
    /\ call[p].pc = "childSaving"
    /\ call' = [call EXCEPT ![p].pc = "workFailed", ![p].err = "PersistError"]
    /\ log' = Append(log, Ev(p, "saveFailed", RowId(p, call[p].idx), call[p].saving,
                             <<>>, <<>>))
    /\ UNCHANGED <<parent, trxState, pending, committed, builder, subBuilder>>

\* --------------------------------- create ... updateOrCreateMany (delegating)
\* Normalize that keeps arrays only: a single name is dropped, not wrapped
NormalizeArraysOnly(pred) == IF pred.kind = "array" THEN pred.seq ELSE <<>>

\* predicate = Array.isArray(predicate) ? predicate : predicate ? [predicate] : []
Normalize(pred) ==
    IF pred.kind = "array" THEN pred.seq
    ELSE IF pred.kind = "string" /\ pred.name # "" THEN <<pred.name>>
    ELSE <<>>

\* PredicateFields that appends the foreign key only when it is not there yet
PredicateFieldsDeduped(pred) ==
    IF \E i \in 1..Len(Normalize(pred)) : Normalize(pred)[i] = foreignKey
    THEN Normalize(pred)
    ELSE Normalize(pred) \o <<foreignKey>>

\* predicate.concat(this.relation.foreignKey)
PredicateFields(pred) == Normalize(pred) \o <<foreignKey>>

\* { client: trx, ...options }.client
OptionsClient(c) == IF c.options = "client" THEN OptTrx ELSE c.trx

Fks(rows) == [i \in 1..Len(rows) |-> rows[i].fk]

\* Delegate without Object.assign({}, value): every payload is hydrated in place
DelegateInPlace(p) ==
    /\ call[p].pc = "delegate"
    /\ Len(call[p].rows) > 0 => CanHydrate
    /\ LET c == call[p]
           hydrated == [i \in 1..Len(c.rows) |-> Hydrate(c.rows[i])]
           fields == IF c.op \in PredicateOps THEN PredicateFields(c.predicate) ELSE <<>>
       IN /\ call' = [call EXCEPT ![p].pc = "delegating",
                                  ![p].rows = hydrated,
                                  ![p].saving = OptionsClient(c)]
          /\ log' = Append(log, Ev(p, c.op, RowId(p, 0), OptionsClient(c),
                                   Fks(hydrated), fields))
    /\ UNCHANGED <<parent, trxState, pending, committed, builder, subBuilder>>

\* copy (create, createMany, firstOrCreate, updateOrCreate) or hydrate in
\* place (fetchOrCreateMany, updateOrCreateMany), then call the related model
Delegate(p) ==
    /\ call[p].pc = "delegate"
    /\ Len(call[p].rows) > 0 => CanHydrate
    /\ LET c == call[p]
           hydrated == [i \in 1..Len(c.rows) |-> Hydrate(c.rows[i])]
           fields == IF c.op \in PredicateOps THEN PredicateFields(c.predicate) ELSE <<>>
       IN /\ call' = [call EXCEPT ![p].pc = "delegating",
                                  ![p].copies = IF c.op \in CopyOps THEN hydrated ELSE <<>>,
                                  ![p].rows = IF c.op \in CopyOps THEN c.rows ELSE hydrated,
                                  ![p].saving = OptionsClient(c)]
          /\ log' = Append(log, Ev(p, c.op, RowId(p, 0), OptionsClient(c),
                                   Fks(hydrated), fields))
    /\ UNCHANGED <<parent, trxState, pending, committed, builder, subBuilder>>

\* the related model's call returns: every row of the call is written
Delegated(p) ==
    /\ call[p].pc = "delegating"
    /\ WriteOn(call[p].saving, {RowId(p, i) : i \in 1..Len(call[p].rows)})
    /\ call' = [call EXCEPT ![p].pc = "workDone"]
    /\ log' = Append(log, Ev(p, "relatedDone", RowId(p, 0), call[p].saving, <<>>, <<>>))
    /\ UNCHANGED <<parent, trxState, builder, subBuilder>>

\* the related model's call throws while persisting row j
DelegateFails(p) ==
    /\ call[p].pc = "delegating"
    /\ \E j \in 1..Len(call[p].rows) :
          /\ WriteOn(call[p].saving, {RowId(p, i) : i \in 1..(j - 1)})
          /\ log' = Append(log, Ev(p, "relatedFailed", RowId(p, j), call[p].saving,
                                   <<>>, <<>>))
    /\ call' = [call EXCEPT ![p].pc = "workFailed", ![p].err = "PersistError"]
    /\ UNCHANGED <<parent, trxState, builder, subBuilder>>

\* ------------------------------------------- the end of managedTransaction
\* Returned with save / saveMany handing back the rows they were given
ReturnedGivenRows(c) == IF c.op \in RowSaveOps THEN "rows" ELSE "related"

\* What the operation's promise resolves with: save / saveMany only
\* `await managedTransaction(...)`, the others `return` it, and with it what
\* the related model's call returned.
Returned(c) == IF c.op \in RowSaveOps THEN "undefined" ELSE "related"

\* owned transaction, the work returned: await trx.commit()
CommitOwned(p) ==
    /\ call[p].pc = "workDone"
    /\ call[p].managed
    /\ LET h == call[p].trx
       IN /\ trxState' = [trxState EXCEPT ![h] = "committed"]
          /\ committed' = committed \cup pending[h]
          /\ pending' = [pending EXCEPT ![h] = {}]
          /\ log' = Append(log, Ev(p, "commit", ParentRow, h, <<>>, <<>>))
    /\ call' = [call EXCEPT ![p].pc = "done", ![p].result = Returned(call[p])]
    /\ UNCHANGED <<parent, builder, subBuilder>>

\* inherited transaction, the work returned: nothing else is done
ReturnInherited(p) ==
    /\ call[p].pc = "workDone"
    /\ ~call[p].managed
    /\ call' = [call EXCEPT ![p].pc = "done", ![p].result = Returned(call[p])]
    /\ UNCHANGED <<parent, trxState, pending, committed, log, builder, subBuilder>>

\* owned transaction, the work threw: await trx.rollback(); throw error
RollbackOwned(p) ==
    /\ call[p].pc = "workFailed"
    /\ call[p].managed
    /\ LET h == call[p].trx
       IN /\ trxState' = [trxState EXCEPT ![h] = "rolledback"]
          /\ pending' = [pending EXCEPT ![h] = {}]
          /\ log' = Append(log, Ev(p, "rollback", ParentRow, h, <<>>, <<>>))
    /\ call' = [call EXCEPT ![p].pc = "failed"]
    /\ UNCHANGED <<parent, committed, builder, subBuilder>>

\* inherited transaction, the work threw: the error goes to the caller
ThrowInherited(p) ==
    /\ call[p].pc = "workFailed"
    /\ ~call[p].managed
    /\ call' = [call EXCEPT ![p].pc = "failed"]
    /\ UNCHANGED <<parent, trxState, pending, committed, log, builder, subBuilder>>

\* ------------------------------------------------- the relation query builder
foreignCastAsKey == "fk_col"         \* this.relation.$foreignCastAsKey

\* new HasManyQueryBuilder(builder, client, parent, relation): `parents` is
\* the one parent, or the array of parents when `batch` (Array.isArray).
NewBuilder(isArray, keys) ==
    [batch |-> isArray, parents |-> keys, applied |-> FALSE, wheres |-> <<>>,
     threw |-> FALSE, calls |-> 0, afterFirst |-> <<>>,
     made |-> "new", pc |-> "returned", hook |-> FALSE, hookCalls |-> 0,
     hookSawApplied |-> FALSE, hookSawWheres |-> 0, isRelatedPreloadQuery |-> FALSE]

NoBuilder == NewBuilder(FALSE, <<>>)

KeySeqs(n) == UNION {[1..m -> FieldValues] : m \in 0..n}

\* The builder as the static factories of the client construct it, the
\* relation's onQueryHook (a function or not) not yet looked at:
\* query(client, relation, row), eagerQuery(client, relation, rows),
\* subQuery(client, relation).
MadeBy(factory, hasHook, b) ==
    [b EXCEPT !.made = factory, !.hook = hasHook, !.pc = "constructed"]

BuilderInputs ==
    {MadeBy("query", hk, NewBuilder(FALSE, <<k>>)) : k \in FieldValues, hk \in BOOLEAN}
    \cup {MadeBy("eagerQuery", hk, NewBuilder(FALSE, <<k>>)) :
              k \in FieldValues, hk \in BOOLEAN}
    \cup {MadeBy("eagerQuery", hk, NewBuilder(TRUE, ks)) :
              ks \in KeySeqs(MaxParents), hk \in BOOLEAN}
    \cup {MadeBy("subQuery", hk, NewBuilder(FALSE, <<>>)) : hk \in BOOLEAN}

\* getValue(model, localKey, relation, action): throws when the key holds no value
HasValue(k) == k # Undefined

\* unique(values): the distinct values, each once, in order of first occurrence
unique(keys) ==
    LET firsts == {i \in 1..Len(keys) : \A j \in 1..(i - 1) : keys[j] # keys[i]}
        Rank(i) == Cardinality({j \in firsts : j <= i})
    IN [n \in 1..Cardinality(firsts) |-> keys[CHOOSE i \in firsts : Rank(i) = n]]

\* applyConstraints() that hands the parents' keys to whereIn as they come
applyConstraintsNoUnique(b) ==
    IF b.applied THEN [b EXCEPT !.threw = FALSE]
    ELSE LET flagged == [b EXCEPT !.applied = TRUE]
         IN IF \E i \in 1..Len(b.parents) : ~HasValue(b.parents[i])
            THEN [flagged EXCEPT !.threw = TRUE]
            ELSE [flagged EXCEPT
                    !.threw = FALSE,
                    !.wheres = Append(@, [kind |-> IF b.batch THEN "whereIn" ELSE "where",
                                          column |-> foreignCastAsKey,
                                          values |-> b.parents])]

\* applyConstraints() without the $appliedConstraints guard
applyConstraintsUnguarded(b) ==
    LET flagged == [b EXCEPT !.applied = TRUE]
    IN IF \E i \in 1..Len(b.parents) : ~HasValue(b.parents[i])
       THEN [flagged EXCEPT !.threw = TRUE]
       ELSE [flagged EXCEPT
               !.threw = FALSE,
               !.wheres = Append(@, [kind |-> IF b.batch THEN "whereIn" ELSE "where",
                                     column |-> foreignCastAsKey,
                                     values |-> unique(b.parents)])]

\* applyConstraints() run on builder state b: the state it leaves, `threw`
\* telling whether the call ended in an error
applyConstraints(b) ==
    IF b.applied THEN [b EXCEPT !.threw = FALSE]
    ELSE LET flagged == [b EXCEPT !.applied = TRUE]
         IN IF \E i \in 1..Len(b.parents) : ~HasValue(b.parents[i])
            THEN [flagged EXCEPT !.threw = TRUE]
            ELSE [flagged EXCEPT
                    !.threw = FALSE,
                    !.wheres = Append(@, [kind |-> IF b.batch THEN "whereIn" ELSE "where",
                                          column |-> foreignCastAsKey,
                                          values |-> unique(b.parents)])]

\* The factory with the hook invoked twice on the builder
InvokeHookTwice ==
    /\ builder.pc = "constructed"
    /\ builder' = [builder EXCEPT
                     !.isRelatedPreloadQuery = (builder.made = "eagerQuery"),
                     !.hookCalls = IF builder.hook THEN @ + 2 ELSE @,
                     !.hookSawApplied = IF builder.hook THEN builder.applied ELSE @,
                     !.hookSawWheres = IF builder.hook THEN Len(builder.wheres) ELSE @,
                     !.pc = "returned"]
    /\ UNCHANGED <<parent, trxState, pending, committed, call, log, subBuilder>>

\* query.isRelatedPreloadQuery = true (eagerQuery);
\* typeof relation.onQueryHook === 'function' && relation.onQueryHook(query);
\* return query
InvokeHook ==
    /\ builder.pc = "constructed"
    /\ builder' = [builder EXCEPT
                     !.isRelatedPreloadQuery = (builder.made = "eagerQuery"),
                     !.hookCalls = IF builder.hook THEN @ + 1 ELSE @,
                     !.hookSawApplied = IF builder.hook THEN builder.applied ELSE @,
                     !.hookSawWheres = IF builder.hook THEN Len(builder.wheres) ELSE @,
                     !.pc = "returned"]
    /\ UNCHANGED <<parent, trxState, pending, committed, call, log, subBuilder>>

\* The callback wrapper handing the user a builder bound to no parent
WrapCallbackUnbound ==
    /\ builder.pc = "returned"
    /\ builder.made # "subQuery"
    /\ subBuilder.made = "new"
    /\ subBuilder' = [NewBuilder(FALSE, <<>>) EXCEPT !.made = "callback"]
    /\ UNCHANGED <<parent, trxState, pending, committed, call, log, builder>>

\* (userFn) => (__builder) =>
\*   userFn(new HasManyQueryBuilder(__builder, this.client, this.parent, this.relation))
\* : a user callback of the builder runs, on a fresh underlying builder
WrapCallback ==
    /\ builder.pc = "returned"
    /\ builder.made # "subQuery"
    /\ subBuilder.made = "new"
    /\ subBuilder' = [NewBuilder(builder.batch, builder.parents) EXCEPT !.made = "callback"]
    /\ UNCHANGED <<parent, trxState, pending, committed, call, log, builder>>

\* one applyConstraints() call on the builder handed to the callback
ApplyConstraintsSub ==
    /\ subBuilder.made = "callback"
    /\ subBuilder.calls < MaxCalls
    /\ LET b == applyConstraints(subBuilder)
       IN subBuilder' = [b EXCEPT !.calls = @ + 1,
                                  !.afterFirst = IF subBuilder.calls = 0 THEN b.wheres ELSE @]
    /\ UNCHANGED <<parent, trxState, pending, committed, call, log, builder>>

\* one applyConstraints() call on the builder
ApplyConstraints ==
    /\ builder.pc = "returned"
    /\ builder.parents # <<>> \/ builder.batch
    /\ builder.calls < MaxCalls
    /\ LET b == applyConstraints(builder)
       IN builder' = [b EXCEPT !.calls = @ + 1,
                               !.afterFirst = IF builder.calls = 0 THEN b.wheres ELSE @]
    /\ UNCHANGED <<parent, trxState, pending, committed, call, log, subBuilder>>

Init ==
    /\ parent \in {r \in ParentInputs : ValidParent(r)}
    /\ trxState = [h \in Handles |->
                     IF h = OptTrx \/ (h = ExtTrx /\ parent.trx = ExtTrx)
                     THEN "open" ELSE "unopened"]
    /\ pending = [h \in Handles |-> {}]
    /\ committed = {}
    /\ \E c \in {x \in CallInputs : ValidCall(x)} :
          call = [p \in Procs |-> IF p = 1 THEN c ELSE IdleCall]
    /\ log = <<>>
    /\ builder = NoBuilder
    /\ subBuilder = NoBuilder

Next ==
    \E p \in Procs :
        \/ Start(p)
        \/ Begin(p)
        \/ Work(p)
        \/ ParentSaved(p)
        \/ ParentSaveFails(p)
        \/ HydrateThrows(p)
        \/ ChildStep(p)
        \/ ChildSaved(p)
        \/ ChildSaveFails(p)
        \/ Delegate(p)
        \/ Delegated(p)
        \/ DelegateFails(p)
        \/ CommitOwned(p)
        \/ ReturnInherited(p)
        \/ RollbackOwned(p)
        \/ ThrowInherited(p)

Spec == Init /\ [][Next]_vars

\* The builder alone: a builder is constructed on its parent(s) and
\* applyConstraints() is called on it.
InitBuilder ==
    /\ parent = [key |-> Undefined, gen |-> FALSE, trx |-> NoTrx]
    /\ trxState = [h \in Handles |-> "unopened"]
    /\ pending = [h \in Handles |-> {}]
    /\ committed = {}
    /\ call = [p \in Procs |-> IdleCall]
    /\ log = <<>>
    /\ builder \in BuilderInputs
    /\ subBuilder = NoBuilder

NextBuilder == InvokeHook \/ ApplyConstraints \/ WrapCallback \/ ApplyConstraintsSub

SpecBuilder == InitBuilder /\ [][NextBuilder]_vars

\* Two write operations issued one after another on the same parent row,
\* no transaction supplied by the caller: the second is issued once the
\* first has ended.
PlainCalls ==
    {c \in CallInputs :
        /\ ValidCall(c)
        /\ c.options = "absent"
        /\ c.predicate = NoPredicate
        /\ Len(c.rows) <= 1
        /\ \A i \in 1..Len(c.rows) : c.rows[i].fk = Undefined}

InitSeq ==
    /\ parent \in {r \in ParentInputs : ValidParent(r) /\ r.trx = NoTrx}
    /\ trxState = [h \in Handles |-> IF h = OptTrx THEN "open" ELSE "unopened"]
    /\ pending = [h \in Handles |-> {}]
    /\ committed = {}
    /\ \E c1 \in PlainCalls, c2 \in PlainCalls :
          call = [p \in Procs |-> IF p = 1 THEN c1 ELSE [c2 EXCEPT !.pc = "queued"]]
    /\ log = <<>>
    /\ builder = NoBuilder
    /\ subBuilder = NoBuilder

\* the caller awaits the first operation, then calls the second
IssueNext ==
    /\ call[1].pc \in {"done", "failed"}
    /\ call[2].pc = "queued"
    /\ call' = [call EXCEPT ![2].pc = "start"]
    /\ UNCHANGED <<parent, trxState, pending, committed, log, builder, subBuilder>>

NextSeq == Next \/ IssueNext

SpecSeq == InitSeq /\ [][NextSeq]_vars

\* Two write operations on the same parent row in flight at once, no
\* transaction supplied by the caller: their steps interleave at the awaits.
\* One row-saving and one copy-hydrating operation stand for the two families.
ConcCalls == {c \in PlainCalls : c.op \in {"save", "create"}}

ConcParents ==
    {r \in ParentInputs : ValidParent(r) /\ r.trx = NoTrx /\ r.key \in {Undefined, 1}}

InitConc ==
    /\ parent \in ConcParents
    /\ trxState = [h \in Handles |-> IF h = OptTrx THEN "open" ELSE "unopened"]
    /\ pending = [h \in Handles |-> {}]
    /\ committed = {}
    /\ \E c1 \in ConcCalls, c2 \in ConcCalls :
          call = [p \in Procs |-> IF p = 1 THEN c1 ELSE c2]
    /\ log = <<>>
    /\ builder = NoBuilder
    /\ subBuilder = NoBuilder

SpecConc == InitConc /\ [][Next]_vars

\* ===================================================================== claims
Idx == 1..Len(log)
Ended(p) == call[p].pc \in {"done", "failed"}
Count(s, x) == Cardinality({i \in 1..Len(s) : s[i] = x})
EventsOf(p, kinds) == {k \in Idx : log[k].p = p /\ log[k].kind \in kinds}
ParentPersists(p) == {k \in EventsOf(p, {"persist"}) : log[k].row = ParentRow}
ChildPersists(p) == {k \in EventsOf(p, {"persist"}) : log[k].row # ParentRow}
RelatedCalls(p) == EventsOf(p, RelatedOps)
Failures(p) == EventsOf(p, {"saveFailed", "relatedFailed", "missingKey"})
PersistFailures(p) == EventsOf(p, {"saveFailed", "relatedFailed"})
ChildIds(p) == {RowId(p, i) : i \in 1..MaxChildren}

\* C1: a write operation started on a parent that carries an open
\* transaction never commits and never rolls back that handle, whether it
\* succeeds or a persist step fails; a failure reaches the caller with the
\* handle still open.
C1_InheritedNeverEnded ==
    \A p \in Procs :
        call[p].inherited # NoTrx =>
            /\ trxState[call[p].inherited] = "open"
            /\ \A k \in Idx : log[k].kind \in {"commit", "rollback"}
                                 => log[k].h # call[p].inherited
            /\ (Ended(p) /\ Failures(p) # {}) => call[p].pc = "failed"

C1_Witness ==
    \E p \in Procs :
        /\ call[p].inherited = ExtTrx
        /\ call[p].op = "saveMany"
        /\ call[p].pc = "failed"
        /\ \E k \in PersistFailures(p) : log[k].row = RowId(p, 2)

\* C2 (as stated): on a parent with no open transaction a transaction is
\* opened and, once the operation ended, exactly one of commit / rollback
\* occurred on it: commit iff every persist step returned normally.
C2_CommitIffPersistsReturned ==
    \A p \in Procs :
        (call[p].managed /\ Ended(p)) =>
            LET commits == {k \in EventsOf(p, {"commit"}) : log[k].h = call[p].trx}
                rollbacks == {k \in EventsOf(p, {"rollback"}) : log[k].h = call[p].trx}
            IN /\ Cardinality(commits) + Cardinality(rollbacks) = 1
               /\ commits # {} <=> PersistFailures(p) = {}

\* C2 (amended): ... commit iff the work returned normally, that is every
\* persist step returned normally and no MissingKeyError was raised;
\* rollback, and the error propagated, otherwise.
C2_ExactlyOneEnd ==
    \A p \in Procs :
        (call[p].managed /\ Ended(p)) =>
            LET commits == {k \in Idx : log[k].kind = "commit" /\ log[k].h = call[p].trx}
                rollbacks == {k \in Idx : log[k].kind = "rollback" /\ log[k].h = call[p].trx}
                begins == {k \in Idx : log[k].kind = "begin" /\ log[k].h = call[p].trx}
            IN /\ Cardinality(begins) = 1
               /\ Cardinality(commits) + Cardinality(rollbacks) = 1
               /\ commits # {} <=> Failures(p) = {}
               /\ rollbacks # {} <=> call[p].pc = "failed"
               /\ trxState[call[p].trx] = IF commits # {} THEN "committed" ELSE "rolledback"

C2_Witness ==
    \E p \in Procs :
        /\ call[p].managed
        /\ call[p].pc = "failed"
        /\ call[p].err = "MissingKeyError"
        /\ trxState[call[p].trx] = "rolledback"

C4_ParentFirstChildrenInOrder ==
    \A p \in Procs :
        /\ Cardinality(ParentPersists(p)) <= 1
        /\ call[p].pc \notin {"unused", "start", "begin", "work"}
              => Cardinality(ParentPersists(p)) = 1
        /\ \A k \in ChildPersists(p) \cup RelatedCalls(p) :
              \E j \in 1..(k - 1) :
                  log[j].p = p /\ log[j].kind = "saved" /\ log[j].row = ParentRow
        /\ \A k \in ChildPersists(p) :
              /\ log[k].row = RowId(p, Cardinality({j \in ChildPersists(p) : j <= k}))
              /\ \A j \in ChildPersists(p) :
                    j < k => \E m \in (j + 1)..(k - 1) :
                                 log[m].kind = "saved" /\ log[m].row = log[j].row
              /\ \A j \in Failures(p) : j > k

C4_Witness ==
    \E p \in Procs :
        /\ call[p].op = "saveMany"
        /\ call[p].pc = "done"
        /\ Cardinality(ChildPersists(p)) = 3

\* C5: in save and saveMany, when a child's persist step is invoked its
\* foreign key equals the parent's local key as it is after the parent was
\* persisted, also when that persist generated the key.
C5_HydratedBeforePersist ==
    \A p \in Procs :
        \A k \in ChildPersists(p) :
            /\ log[k].fks = <<parent.key>>
            /\ parent.key # Undefined
            /\ \E j \in 1..(k - 1) :
                  /\ log[j].p = p /\ log[j].kind = "saved" /\ log[j].row = ParentRow
                  /\ log[j].fks = log[k].fks

C5_Witness ==
    \E p \in Procs :
        /\ parent.gen
        /\ \E k \in ParentPersists(p) : log[k].fks = <<Undefined>>
        /\ \E k \in ChildPersists(p) :
              /\ log[k].row = RowId(p, 2)
              /\ call[p].input[2].fk # log[k].fks[1]

\* C6 (as stated): a MissingKeyError raised while resolving the parent's
\* local key aborts the operation before any write was issued: no persist
\* step of the parent or of a child was invoked when it is raised.
C6_NoWriteBeforeMissingKey ==
    \A p \in Procs :
        \A k \in EventsOf(p, {"missingKey"}) :
            \A j \in 1..(k - 1) :
                log[j].p = p => log[j].kind \notin {"persist"} \cup RelatedOps

\* C6 (amended): ... aborts the operation before any child write was
\* issued: the parent's persist step was invoked once and returned, no
\* persist step of a child and no call of the related model was invoked.
C6_NoChildWriteBeforeMissingKey ==
    \A p \in Procs :
        \A k \in EventsOf(p, {"missingKey"}) :
            /\ ChildPersists(p) = {}
            /\ RelatedCalls(p) = {}
            /\ Cardinality(ParentPersists(p)) = 1
            /\ \E j \in 1..(k - 1) :
                  log[j].p = p /\ log[j].kind = "saved" /\ log[j].row = ParentRow
            /\ committed \cap ChildIds(p) = {}
            /\ \A h \in Handles : pending[h] \cap ChildIds(p) = {}

C6_Witness ==
    \E p \in Procs :
        /\ call[p].op = "saveMany"
        /\ Len(call[p].rows) = 3
        /\ call[p].pc = "failed"
        /\ EventsOf(p, {"missingKey"}) # {}

\* C7: the one handle resolved at the start of a write operation is the
\* handle of the parent's persist, of every child row's persist and the
\* client handed to the related model's call, for every options value.
C7_SameHandleEverywhere ==
    \A p \in Procs :
        \A k \in ParentPersists(p) \cup ChildPersists(p) \cup RelatedCalls(p) :
            log[k].h = call[p].trx

\* C8: the predicate-field list handed to the related model by
\* fetchOrCreateMany / updateOrCreateMany is [foreignKey] for undefined,
\* [name, foreignKey] for a single field name and the sequence followed by
\* foreignKey for a sequence; a name and the one-element sequence of it
\* give the same list.
ClaimedFields(pred) ==
    CASE pred.kind = "undefined" -> <<foreignKey>>
      [] pred.kind = "string" -> <<pred.name, foreignKey>>
      [] pred.kind = "array" -> pred.seq \o <<foreignKey>>

C8_PredicateNormalization ==
    /\ \A p \in Procs :
          \A k \in RelatedCalls(p) :
              (/\ log[k].kind \in PredicateOps
               /\ call[p].predicate.kind = "string" => call[p].predicate.name \in FieldNames)
                 => log[k].pred = ClaimedFields(call[p].predicate)
    /\ \A n \in FieldNames :
          PredicateFields([kind |-> "string", name |-> n, seq |-> <<>>])
            = PredicateFields([kind |-> "array", name |-> "", seq |-> <<n>>])

C8_Witness ==
    \E p \in Procs :
        \E k \in RelatedCalls(p) :
            /\ log[k].kind = "fetchOrCreateMany"
            /\ call[p].predicate = [kind |-> "string", name |-> "email", seq |-> <<>>]
            /\ log[k].pred = <<"email", foreignKey>>

\* C9 (as stated): for every predicateFields input, also one that already
\* names the foreign key, the field list used for matching contains the
\* foreign key exactly once.
C9_ForeignKeyOnce ==
    \A p \in Procs :
        \A k \in RelatedCalls(p) :
            log[k].kind \in PredicateOps => Count(log[k].pred, foreignKey) = 1

\* C9 (amended): the field list ends with the foreign key, appended once
\* whatever the input: it holds the foreign key once more than the
\* caller's input names it, so exactly once when the input does not name it.
NamedByCaller(pred) ==
    CASE pred.kind = "undefined" -> 0
      [] pred.kind = "string" -> IF pred.name = foreignKey THEN 1 ELSE 0
      [] pred.kind = "array" -> Count(pred.seq, foreignKey)

C9_ForeignKeyAppendedOnce ==
    \A p \in Procs :
        \A k \in RelatedCalls(p) :
            log[k].kind \in PredicateOps =>
                /\ log[k].pred[Len(log[k].pred)] = foreignKey
                /\ Count(log[k].pred, foreignKey) = NamedByCaller(call[p].predicate) + 1

C9_Witness ==
    \E p \in Procs :
        \E k \in RelatedCalls(p) :
            /\ log[k].kind = "updateOrCreateMany"
            /\ call[p].predicate.kind = "array"
            /\ log[k].pred = <<"email", foreignKey, foreignKey>>

\* C10: after any number (>= 1) of applyConstraints() calls on one builder
\* the underlying builder carries the same relation predicate as after
\* exactly one call; the predicate is added at most once.
C10_ConstraintsIdempotent ==
    builder.calls >= 1 =>
        /\ builder.wheres = builder.afterFirst
        /\ Len(builder.wheres) <= 1
        /\ \A i \in 1..Len(builder.wheres) :
              /\ builder.wheres[i].column = foreignCastAsKey
              /\ builder.wheres[i].values = unique(builder.parents)

C10_Witness ==
    /\ builder.calls >= 2
    /\ builder.batch
    /\ Len(builder.parents) >= 2
    /\ Len(builder.wheres) = 1

\* C11: a builder bound to a sequence of N parents gets exactly one
\* set-membership predicate on the foreign key from applyConstraints (one
\* query, not N); its values are the distinct local keys of the parents,
\* each once (keys [1,2,2,3] give 3 values).
ValueSet(seq) == {seq[i] : i \in 1..Len(seq)}

C11_BatchOnePredicateDistinctKeys ==
    (/\ builder.batch
     /\ builder.calls >= 1
     /\ \A i \in 1..Len(builder.parents) : HasValue(builder.parents[i])) =>
        /\ Len(builder.wheres) = 1
        /\ builder.wheres[1].kind = "whereIn"
        /\ builder.wheres[1].column = foreignCastAsKey
        /\ ValueSet(builder.wheres[1].values) = ValueSet(builder.parents)
        /\ Len(builder.wheres[1].values) = Cardinality(ValueSet(builder.parents))

C11_Witness ==
    /\ builder.batch
    /\ builder.parents = <<1, 2, 2, 3>>
    /\ builder.calls >= 1
    /\ Len(builder.wheres) = 1
    /\ builder.wheres[1].values = <<1, 2, 3>>

\* C12 (as stated): with a query hook on the relation, the builder returned
\* by query, eagerQuery or subQuery has had the hook invoked exactly once,
\* on a builder the relation predicate was already applied to; without a
\* hook nothing is invoked.
C12_HookOnConstrainedBuilder ==
    builder.pc = "returned" =>
        /\ builder.hookCalls = IF builder.hook THEN 1 ELSE 0
        /\ (builder.hook /\ builder.made # "subQuery") =>
              (builder.hookSawApplied /\ builder.hookSawWheres >= 1)

\* C12 (amended): ... has had the hook invoked exactly once, on the
\* relation-bound builder that is returned, the relation predicate not yet
\* applied to it (applyConstraints adds it later, lazily); without a hook
\* nothing is invoked.
C12_HookOnceBeforeConstraints ==
    /\ builder.pc = "constructed" => builder.hookCalls = 0
    /\ builder.pc = "returned" =>
          /\ builder.hookCalls = IF builder.hook THEN 1 ELSE 0
          /\ ~builder.hookSawApplied
          /\ builder.hookSawWheres = 0
          /\ builder.isRelatedPreloadQuery <=> builder.made = "eagerQuery"

C12_Witness ==
    /\ builder.made = "eagerQuery"
    /\ builder.hook
    /\ builder.pc = "returned"
    /\ builder.hookCalls = 1
    /\ builder.applied
    /\ Len(builder.wheres) = 1

\* C13 (as stated): on success save(child) returns the child row it was
\* given, now persisted, and saveMany(children) returns the sequence it was
\* given, all persisted.
RowsPersisted(p) ==
    /\ Len(call[p].rows) = Len(call[p].input)
    /\ \A i \in 1..Len(call[p].rows) :
          /\ \E k \in EventsOf(p, {"saved"}) : log[k].row = RowId(p, i)
          /\ call[p].rows[i].fk = parent.key
          /\ call[p].rows[i].trx = call[p].trx

C13_ReturnsGivenRows ==
    \A p \in Procs :
        (call[p].op \in RowSaveOps /\ call[p].pc = "done") =>
            (call[p].result = "rows" /\ RowsPersisted(p))

\* C13 (amended): on success save(child) and saveMany(children) resolve
\* with no value; the row(s) handed in are the ones persisted, in place:
\* each carries the parent's key and the operation's handle and was saved.
C13_RowsPersistedInPlace ==
    \A p \in Procs :
        (call[p].op \in RowSaveOps /\ call[p].pc = "done") =>
            (call[p].result = "undefined" /\ RowsPersisted(p))

C13_Witness ==
    \E p \in Procs :
        /\ call[p].op = "saveMany"
        /\ call[p].pc = "done"
        /\ Len(call[p].rows) = 3
        /\ call[p].input[1].fk # call[p].rows[1].fk

\* C14: create, createMany, firstOrCreate and updateOrCreate hydrate the
\* foreign key on a copy: the caller's value map(s) / search map are
\* unchanged after the operation, whether it succeeds or fails, and the
\* map handed to the related model is the copy with the foreign key set to
\* the parent's local key.
C14_CallerMapsUnchanged ==
    \A p \in Procs :
        call[p].op \in CopyOps =>
            /\ call[p].rows = call[p].input
            /\ \A k \in RelatedCalls(p) :
                  /\ log[k].fks = Fks(call[p].copies)
                  /\ Len(log[k].fks) = Len(call[p].input)
                  /\ \A i \in 1..Len(log[k].fks) :
                        log[k].fks[i] = parent.key /\ parent.key # Undefined

C14_Witness ==
    \E p \in Procs :
        /\ call[p].op = "createMany"
        /\ call[p].pc = "failed"
        /\ Len(call[p].input) = 3
        /\ call[p].input[1].fk # parent.key
        /\ RelatedCalls(p) # {}

\* C15: the sub-builder handed to a user-supplied filter callback is a
\* relation builder bound to the same parent(s) and the same relation as
\* the outer builder: applying constraints on it yields the same relation
\* predicate as on the outer builder.
C15_SubBuilderSameRelation ==
    subBuilder.made = "callback" =>
        /\ subBuilder.batch = builder.batch
        /\ subBuilder.parents = builder.parents
        /\ (builder.calls >= 1 /\ subBuilder.calls >= 1) =>
              subBuilder.wheres = builder.wheres

C15_Witness ==
    /\ subBuilder.made = "callback"
    /\ builder.batch
    /\ builder.calls >= 1
    /\ subBuilder.calls >= 1
    /\ Len(subBuilder.wheres) = 1
    /\ Len(subBuilder.wheres[1].values) >= 2

\* C16: in every reachable state of a builder, if its constraints-applied
\* flag is set the underlying builder carries the relation predicate; in
\* particular, after an applyConstraints() call that failed with
\* MissingKeyError no later call returns normally with the query left
\* without a relation predicate.
C16_AppliedFlagMeansPredicate ==
    /\ builder.applied => Len(builder.wheres) >= 1
    /\ (builder.calls >= 1 /\ ~builder.threw) => Len(builder.wheres) >= 1

\* C17: write operations issued one after another on the same parent row,
\* no external transaction: each opens its own transaction and commits or
\* rolls it back itself; none treats a handle left on the parent's slot by
\* an earlier, finished operation as inherited, and no persist step runs on
\* a handle already committed or rolled back.
C17_EachCallOwnsItsTransaction ==
    \A p \in Procs :
        /\ call[p].pc \notin {"unused", "queued", "start"} =>
              (call[p].managed /\ call[p].inherited = NoTrx)
        /\ call[p].pc \in {"parentSaving", "childSaving", "delegating"} =>
              trxState[call[p].saving] = "open"
        /\ Ended(p) =>
              Cardinality({k \in EventsOf(p, {"commit", "rollback"}) :
                              log[k].h = OwnTrx(p)}) = 1
\* --- two operations in flight on one parent row
InFlight(p) == call[p].pc \notin {"unused", "queued", "start", "begin", "done", "failed"}
PastSlotWrite(p) == call[p].pc \notin {"unused", "queued", "start", "begin", "work"}
Endings(h) == {k \in Idx : log[k].kind \in {"commit", "rollback"} /\ log[k].h = h}

\* every transaction an operation opened is committed or rolled back exactly
\* once, by the operation that opened it
OpenedEndedOnce ==
    \A p \in Procs :
        /\ Cardinality(Endings(OwnTrx(p))) <= 1
        /\ \A k \in Endings(OwnTrx(p)) : log[k].p = p
        /\ (Ended(p) /\ call[p].managed) => Cardinality(Endings(OwnTrx(p))) = 1

\* every save() of the parent or of a child row is issued on the handle the
\* issuing operation resolved
PersistOnResolvedHandle ==
    \A p \in Procs :
        \A k \in ParentPersists(p) \cup ChildPersists(p) : log[k].h = call[p].trx

\* C18 (as stated): with two write operations on the same parent row in
\* flight at once, the parent's transaction slot is written only by the
\* operation that owns the handle it writes, every persist step runs on the
\* handle its operation resolved, and every opened handle is committed or
\* rolled back exactly once.
C18_SlotWrittenOnlyByOwner ==
    /\ \A p \in Procs : PastSlotWrite(p) => call[p].trx = OwnTrx(p)
    /\ PersistOnResolvedHandle
    /\ OpenedEndedOnce

\* C18 (amended): with two write operations on the same parent row in flight
\* at once, every opened handle is committed or rolled back exactly once, by
\* the operation that opened it, and every save() of the parent or a child
\* runs on the handle its operation resolved; the slot always holds a handle
\* one of the operations resolved, which may be a handle the other one owns.
C18_HandlesEndedOncePersistsOnResolved ==
    /\ OpenedEndedOnce
    /\ PersistOnResolvedHandle
    /\ parent.trx # NoTrx => \E p \in Procs : PastSlotWrite(p) /\ parent.trx = call[p].trx

\* operation 2 resolved the handle operation 1 opened while operation 1 was
\* still in flight, and saved a child row on it
C18_Witness ==
    /\ InFlight(1)
    /\ InFlight(2)
    /\ call[2].trx = OwnTrx(1)
    /\ \E k \in ChildPersists(2) : log[k].h = OwnTrx(1)
    /\ ParentPersists(1) # {}

====
